---------------------------- MODULE Spec2Model ----------------------------
(***************************************************************************)
(* Model of bigmler/analyze/k_fold_cv.py: the best-first feature search,   *)
(* the node-threshold sweep, the scorer they share and the subcommand      *)
(* ledger that makes a run resumable.                                      *)
(*                                                                         *)
(* Scores and metric values are fixed-point numbers in thousandths, so     *)
(* EPSILON = 0.001 is 1 and DEFAULT_PENALTY = 0.001 is 1.  -float('inf')   *)
(* is NegInf, an integer far below every finite score of the model.        *)
(***************************************************************************)
EXTENDS Integers, Sequences, FiniteSets, TLC

(***************************************************************************)
(* Program constants.                                                      *)
(***************************************************************************)
EPSILON == 1
DEFAULT_PENALTY == 1
DEFAULT_NODES_PENALTY == 0
DEFAULT_STALENESS == 5
DEFAULT_MIN_NODES == 3
DEFAULT_NODES_STEP == 100
NegInf == -1000000

AVG_PREFIX == "average_"
R_SQUARED == "r_squared"
ACCURACY == "accuracy"
MINIMIZE_OPTIONS == {"mean_absolute_error", "mean_squared_error"}

(***************************************************************************)
(* Bounds of the model.                                                    *)
(***************************************************************************)
MaxFeatures == 3
MaxRestarts == 1
MaxThreshold == 3
MaxTokens == 2
MaxComplexity == 3

(***************************************************************************)
(* Command strings.  A command is the sequence of its whitespace-separated *)
(* tokens; a token is [pre, suf]: a word and a number printed after it.    *)
(* The tokens "name=BigMLer_<suf>" and "name=Bigmler_<suf>" are the ones   *)
(* different_command looks for.  NL is the "\n" that rebuild_command puts  *)
(* at the end of the string.                                               *)
(***************************************************************************)
Tok(pre, suf) == [pre |-> pre, suf |-> suf]
NL == Tok("\n", 0)
EmptyTok == Tok("", 0)
UPPER_NAME == "name=BigMLer_"
LOWER_NAME == "name=Bigmler_"

\* rebuild_command: the arguments joined, with the line end
rebuild_command(args) == Append(args, NL)

\* 'name=BigMLer_' in command
contains_default_name(command) ==
    \E i \in DOMAIN command : command[i].pre = UPPER_NAME

\* re.sub(re.compile(r'name=Bigmler_[^\s]+'), "", s)
re_sub_name(s) ==
    [i \in DOMAIN s |-> IF s[i].pre = LOWER_NAME THEN EmptyTok ELSE s[i]]

\* different_command with the test of equality inverted
different_command_negated(next_command, command) ==
    IF next_command # command
    THEN FALSE
    ELSE IF contains_default_name(command)
         THEN re_sub_name(next_command) = re_sub_name(command)
         ELSE TRUE

different_command(next_command, command) ==
    IF next_command = command
    THEN FALSE
    ELSE IF contains_default_name(command)
         THEN re_sub_name(next_command) = re_sub_name(command)
         ELSE FALSE


(***************************************************************************)
(* Feature lists.  A field name is the token Tok("field", i); model_fields *)
(* is the string args_separator.join(input_fields), kept as its pieces.    *)
(***************************************************************************)
ARGS_SEPARATOR == Tok(",", 0)

RECURSIVE join(_, _)
join(sep, names) ==
    IF Len(names) = 0 THEN <<>>
    ELSE IF Len(names) = 1 THEN <<names[1]>>
    ELSE <<names[1], sep>> \o join(sep, Tail(names))

\* len(s.split(sep)): one more than the separators in s, 1 for the empty string
split_len(s, sep) == 1 + Cardinality({i \in DOMAIN s : s[i] = sep})

\* [fields.field_name(field_id) for (i, field_id) in enumerate(field_ids) if child[i]]
input_fields(child) ==
    LET idx == SelectSeq([i \in 1..Len(child) |-> i], LAMBDA i : child[i])
    IN  [j \in 1..Len(idx) |-> Tok("field", idx[j])]

model_fields_of(child) == join(ARGS_SEPARATOR, input_fields(child))

(***************************************************************************)
(* The scorer: the part of kfold_evaluate and node_threshold_evaluate that *)
(* follows the oracle call.  An evaluation is the function from the keys   *)
(* of the evaluation's "model" dictionary to their values.                 *)
(***************************************************************************)
avg_key(metric) == AVG_PREFIX \o metric

invert_of(metric) == IF metric \in MINIMIZE_OPTIONS THEN -1 ELSE 1

\* kfold_score with the penalty not multiplied by invert
kfold_score_no_invert(evaluation, metric, penalty, model_fields) ==
    LET requested == avg_key(metric)
        found == requested \in DOMAIN evaluation
        avg_metric == IF found THEN requested ELSE avg_key(R_SQUARED)
        metric_literal == IF found THEN metric ELSE R_SQUARED
        invert == invert_of(metric)
    IN  IF avg_metric \notin DOMAIN evaluation
        THEN [fatal |-> TRUE, score |-> 0, metric_value |-> 0,
              metric |-> metric_literal]
        ELSE [fatal |-> FALSE,
              score |-> invert * (evaluation[avg_metric] -
                                  penalty *
                                  split_len(model_fields, ARGS_SEPARATOR)),
              metric_value |-> evaluation[avg_metric],
              metric |-> metric_literal]

\* kfold_evaluate after the call: sys.exit is fatal = TRUE
kfold_score(evaluation, metric, penalty, model_fields) ==
    LET requested == avg_key(metric)
        found == requested \in DOMAIN evaluation
        avg_metric == IF found THEN requested ELSE avg_key(R_SQUARED)
        metric_literal == IF found THEN metric ELSE R_SQUARED
        invert == invert_of(metric)
    IN  IF avg_metric \notin DOMAIN evaluation
        THEN [fatal |-> TRUE, score |-> 0, metric_value |-> 0,
              metric |-> metric_literal]
        ELSE [fatal |-> FALSE,
              score |-> invert * (evaluation[avg_metric] -
                                  invert * penalty *
                                  split_len(model_fields, ARGS_SEPARATOR)),
              metric_value |-> evaluation[avg_metric],
              metric |-> metric_literal]

\* node_threshold_evaluate after the call
\* node_threshold_score that returns the requested name after falling back
node_threshold_score_requested_name(evaluation, metric, penalty, node_threshold) ==
    LET requested == avg_key(metric)
        found == requested \in DOMAIN evaluation
        avg_metric == IF found THEN requested ELSE avg_key(R_SQUARED)
        invert == invert_of(metric)
    IN  IF avg_metric \notin DOMAIN evaluation
        THEN [fatal |-> TRUE, score |-> 0, metric_value |-> 0,
              metric |-> metric]
        ELSE [fatal |-> FALSE,
              score |-> invert * (evaluation[avg_metric] -
                                  invert * penalty * node_threshold),
              metric_value |-> evaluation[avg_metric],
              metric |-> metric]

node_threshold_score(evaluation, metric, penalty, node_threshold) ==
    LET requested == avg_key(metric)
        found == requested \in DOMAIN evaluation
        avg_metric == IF found THEN requested ELSE avg_key(R_SQUARED)
        metric_literal == IF found THEN metric ELSE R_SQUARED
        invert == invert_of(metric)
    IN  IF avg_metric \notin DOMAIN evaluation
        THEN [fatal |-> TRUE, score |-> 0, metric_value |-> 0,
              metric |-> metric_literal]
        ELSE [fatal |-> FALSE,
              score |-> invert * (evaluation[avg_metric] -
                                  invert * penalty * node_threshold),
              metric_value |-> evaluation[avg_metric],
              metric |-> metric_literal]

(***************************************************************************)
(* Helpers of the best-first search.  A state is a sequence of booleans,   *)
(* an element of open_list and closed_list is <<state, score,              *)
(* metric_value>>.                                                         *)
(***************************************************************************)
RECURSIVE find_max_from(_, _, _, _)
find_max_from(states_list, i, is_none, max) ==
    IF i > Len(states_list) THEN max
    ELSE IF states_list[i][2] > max[2]
            \/ (is_none /\ max[2] = states_list[i][2])
         THEN find_max_from(states_list, i + 1, FALSE, states_list[i])
         ELSE find_max_from(states_list, i + 1, is_none, max)

\* find_max_state with >= for >: the last of the maximal elements
find_max_state_last(states_list) ==
    LET i == CHOOSE i \in 1..Len(states_list) :
                 /\ \A j \in 1..Len(states_list) :
                       states_list[j][2] <= states_list[i][2]
                 /\ \A j \in (i + 1)..Len(states_list) :
                       states_list[j][2] < states_list[i][2]
    IN  states_list[i]

\* max_state starts as None (is_none); it is never None on a non-empty list
\* of scores that are finite or -inf
find_max_state(states_list) ==
    find_max_from(states_list, 1, TRUE, <<<<>>, NegInf, NegInf>>)

\* expand_state with range(len(parent) - 1)
expand_state_short(parent) ==
    [i \in 1..(Len(parent) - 1) |-> [parent EXCEPT ![i] = ~parent[i]]]

expand_state(parent) ==
    [i \in 1..Len(parent) |-> [parent EXCEPT ![i] = ~parent[i]]]

\* the search without open_list.remove(features_set)
list_remove_nothing(list, x) == list

\* list.remove(x): the first element equal to x goes
list_remove(list, x) ==
    LET first == CHOOSE i \in 1..Len(list) :
                    list[i] = x /\ \A j \in 1..(i - 1) : list[j] # x
    IN  SubSeq(list, 1, first - 1) \o SubSeq(list, first + 1, Len(list))

\* child in [state for state, _, _ in list]
in_states(child, list) == \E i \in 1..Len(list) : list[i][1] = child

\* is_new_child that looks in closed_list only
is_new_child_closed_only(child, open, closed) == ~in_states(child, closed)

\* is_new_child without the test of closed_list
is_new_child_open_only(child, open, closed) == ~in_states(child, open)

\* the condition of lines 525-526
is_new_child(child, open, closed) ==
    ~in_states(child, open) /\ ~in_states(child, closed)

\* the children the loop of line 524 still has to evaluate: the ones it
\* skips at the front are dropped
RECURSIVE pending_children(_, _, _)
pending_children(children, open, closed) ==
    IF children = <<>> THEN <<>>
    ELSE IF is_new_child(Head(children), open, closed) THEN children
    ELSE pending_children(Tail(children), open, closed)

\* improves without EPSILON
improves_no_margin(score, best) == score > best

\* improves with >= in place of >, and without EPSILON
improves_on_tie(score, best) == score >= best

\* improves, with any score an improvement on -infinity
improves_from_nothing(score, best) ==
    best = NegInf \/ (score - EPSILON) > best

\* (score - EPSILON) > best_score
improves(score, best) == (score - EPSILON) > best

(***************************************************************************)
(* State.                                                                  *)
(*   On disk, kept across runs: subcommand_file (the text of               *)
(*   .bigmler_subcmd, a stream of tokens), file_exists, json_written (the  *)
(*   kfold_dataset-<i>.json files), outputs (what the dispatched commands  *)
(*   left in their output directories: the command and the metric value of *)
(*   evaluation.json), rows (the progress CSV).                            *)
(*   In the process: everything else.  An optional value (None or v) is    *)
(*   <<>> or <<v>>.                                                        *)
(***************************************************************************)
VARIABLES
    subcommand_file, file_exists, json_written, outputs, rows,
    oracle_keys,
    pc, args, resume, subcommand_list, index, inflight,
    staleness, penalty, metric,
    open_list, closed_list, children,
    best_state, best_score, best_metric_value, best_unchanged_count,
    counter, loop_counter,
    node_threshold, best_threshold, report,
    calls, catchups, appended, restarts, resume0, same_args, prev,
    cmd_in, cmd_out, sc_in, sc_out

disk_vars == <<subcommand_file, file_exists, json_written, outputs>>
ledger_vars == <<resume, subcommand_list>>
search_vars == <<open_list, closed_list, children, best_state, best_score,
                 best_metric_value, best_unchanged_count, counter,
                 loop_counter, node_threshold, best_threshold, rows>>
local_vars == <<staleness, penalty, metric>>
count_vars == <<calls, catchups, appended>>
run_vars == <<restarts, resume0, same_args, prev>>
pure_vars == <<cmd_in, cmd_out, sc_in, sc_out>>

vars == <<subcommand_file, file_exists, json_written, outputs, rows,
          oracle_keys,
          pc, args, resume, subcommand_list, index, inflight,
          staleness, penalty, metric,
          open_list, closed_list, children,
          best_state, best_score, best_metric_value, best_unchanged_count,
          counter, loop_counter,
          node_threshold, best_threshold, report,
          calls, catchups, appended, restarts, resume0, same_args, prev,
          cmd_in, cmd_out, sc_in, sc_out>>

None == <<>>
Some(v) == <<v>>
or_default(x, d) == IF x = None THEN d ELSE x[1]

(***************************************************************************)
(* The ledger file.                                                        *)
(***************************************************************************)
RECURSIVE read_lines(_, _, _)
\* file.readlines(): the stream cut after every "\n"
read_lines(stream, line, lines) ==
    IF stream = <<>>
    THEN IF line = <<>> THEN lines ELSE Append(lines, line)
    ELSE IF Head(stream) = NL
         THEN read_lines(Tail(stream), <<>>, Append(lines, Append(line, NL)))
         ELSE read_lines(Tail(stream), Append(line, Head(stream)), lines)

reverse(list) == [i \in 1..Len(list) |-> list[Len(list) + 1 - i]]

\* retrieve_subcommands without the reverse()
retrieve_subcommands_unreversed(file) == read_lines(file, <<>>, <<>>)

\* retrieve_subcommands: the lines of the file, last line first
retrieve_subcommands(file) == reverse(read_lines(file, <<>>, <<>>))

\* u.sys_log_message(command, log_file=subcommand_file): the command goes
\* to the end of the file
sys_log_message(file, command) == file \o command

(***************************************************************************)
(* The commands of the three call sites, before rebuild_command.  The      *)
(* second token names the output the command writes: Tok("test", index),   *)
(* Tok("kfold", counter) or Tok("node_th", node_threshold).                *)
(***************************************************************************)
selection_args(a, i) ==
    <<Tok("main", 0), Tok("test", i), Tok("--no-model", 0)>> \o a.opts

create_cv_args(a, count, model_fields) ==
    <<Tok("main", 0), Tok("kfold", count)>>
    \o (IF model_fields # <<>>
        THEN <<Tok("--model-fields", 0)>> \o model_fields ELSE <<>>)
    \o <<Tok("--objective", 0)>>
    \o a.opts

node_threshold_args(a, threshold) ==
    <<Tok("main", 0), Tok("node_th", threshold)>>
    \o a.opts
    \o <<Tok("--objective", 0)>>

output_of(command) == command[2]

(***************************************************************************)
(* The dispatcher, a collaborator.  Running a command leaves its result in *)
(* the command's output directory; the oracle is deterministic, so running *)
(* again the command that wrote a result writes the same result.  'main    *)
(* --resume' completes the last command of the ledger if it is not done.   *)
(***************************************************************************)
main_dispatcher(outs, command, value) ==
    LET key == output_of(command)
        same == key \in DOMAIN outs /\ outs[key].cmd = command
    IN  [k \in DOMAIN outs \cup {key} |->
            IF k = key /\ ~same THEN [cmd |-> command, val |-> value]
            ELSE outs[k]]

main_dispatcher_resume(outs, file, value) ==
    LET lines == read_lines(file, <<>>, <<>>)
    IN  IF lines = <<>> THEN outs
        ELSE main_dispatcher(outs, lines[Len(lines)], value)

\* json.loads of evaluation.json, then extract_evaluation_info
evaluation_of(value) == [k \in {avg_key(m) : m \in oracle_keys} |-> value]

(***************************************************************************)
(* The resume protocol of lines 307-318, 392-403 and 730-741: what the     *)
(* call site does with the command before the dispatcher runs.             *)
(*   run: main_dispatcher(args=command_args) is called                     *)
(*   log: the command is written to the ledger                             *)
(*   catchup: main_dispatcher(args=['main', '--resume']) is called         *)
(***************************************************************************)
\* resume_step that stays in resume mode after the catch-up
resume_step_catchup_stays(res, list, command) ==
    IF res
    THEN LET next_command == list[Len(list)]
             rest == SubSeq(list, 1, Len(list) - 1)
         IN  IF different_command(next_command, command)
             THEN [resume |-> FALSE, list |-> rest, log |-> TRUE,
                   run |-> TRUE, catchup |-> FALSE]
             ELSE IF rest = <<>>
                  THEN [resume |-> TRUE, list |-> rest, log |-> FALSE,
                        run |-> FALSE, catchup |-> TRUE]
                  ELSE [resume |-> TRUE, list |-> rest, log |-> FALSE,
                        run |-> FALSE, catchup |-> FALSE]
    ELSE [resume |-> FALSE, list |-> list, log |-> TRUE, run |-> TRUE,
          catchup |-> FALSE]

\* resume_step that does not write the command of a fresh invocation
resume_step_no_log(res, list, command) ==
    IF res
    THEN LET next_command == list[Len(list)]
             rest == SubSeq(list, 1, Len(list) - 1)
         IN  IF different_command(next_command, command)
             THEN [resume |-> FALSE, list |-> rest, log |-> TRUE,
                   run |-> TRUE, catchup |-> FALSE]
             ELSE IF rest = <<>>
                  THEN [resume |-> FALSE, list |-> rest, log |-> FALSE,
                        run |-> FALSE, catchup |-> TRUE]
                  ELSE [resume |-> TRUE, list |-> rest, log |-> FALSE,
                        run |-> FALSE, catchup |-> FALSE]
    ELSE [resume |-> FALSE, list |-> list, log |-> FALSE, run |-> TRUE,
          catchup |-> FALSE]

\* resume_step with the flag coming back while entries are left
resume_step_sticky(res, list, command) ==
    IF res
    THEN LET next_command == list[Len(list)]
             rest == SubSeq(list, 1, Len(list) - 1)
         IN  IF different_command(next_command, command)
             THEN [resume |-> FALSE, list |-> rest, log |-> TRUE,
                   run |-> TRUE, catchup |-> FALSE]
             ELSE IF rest = <<>>
                  THEN [resume |-> FALSE, list |-> rest, log |-> FALSE,
                        run |-> FALSE, catchup |-> TRUE]
                  ELSE [resume |-> TRUE, list |-> rest, log |-> FALSE,
                        run |-> FALSE, catchup |-> FALSE]
    ELSE [resume |-> list # <<>>, list |-> list, log |-> TRUE, run |-> TRUE,
          catchup |-> FALSE]

resume_step(res, list, command) ==
    IF res
    THEN LET next_command == list[Len(list)]
             rest == SubSeq(list, 1, Len(list) - 1)
         IN  IF different_command(next_command, command)
             THEN [resume |-> FALSE, list |-> rest, log |-> TRUE,
                   run |-> TRUE, catchup |-> FALSE]
             ELSE IF rest = <<>>
                  THEN [resume |-> FALSE, list |-> rest, log |-> FALSE,
                        run |-> FALSE, catchup |-> TRUE]
                  ELSE [resume |-> TRUE, list |-> rest, log |-> FALSE,
                        run |-> FALSE, catchup |-> FALSE]
    ELSE [resume |-> FALSE, list |-> list, log |-> TRUE, run |-> TRUE,
          catchup |-> FALSE]

\* subcommand_list.pop() on an empty list raises IndexError
pop_fails == resume /\ subcommand_list = <<>>

\* the part of a call site that changes the ledger and the counters
apply_step(l, command) ==
    /\ resume' = l.resume
    /\ subcommand_list' = l.list
    /\ subcommand_file' = IF l.log THEN sys_log_message(subcommand_file, command)
                          ELSE subcommand_file
    /\ file_exists' = (file_exists \/ l.log)
    /\ appended' = appended + (IF l.log THEN 1 ELSE 0)
    /\ calls' = calls + (IF l.run THEN 1 ELSE 0)
    /\ catchups' = catchups + (IF l.catchup THEN 1 ELSE 0)
    /\ inflight' = IF l.run THEN command ELSE <<>>

\* the process dies: an uncaught exception or sys.exit; pc names it
Failures == {"IOError", "IndexError", "UnboundLocalError",
             "Failed to retrieve evaluation.", "Failed to find metric"}

fails(error) ==
    /\ pc' = error
    /\ UNCHANGED <<disk_vars, rows, oracle_keys, args, ledger_vars, index,
                   inflight, local_vars, open_list, closed_list, children,
                   best_state, best_score, best_metric_value,
                   best_unchanged_count, counter, loop_counter,
                   node_threshold, best_threshold, report, count_vars,
                   run_vars, pure_vars>>

(***************************************************************************)
(* Inputs.                                                                 *)
(***************************************************************************)
\* averaged metric values the oracle can return: 0.500 and 0.502
Raws == {500, 502}

\* what running a command can leave in its output: a dataset (0) or an
\* evaluation
dispatch_values(command) ==
    IF output_of(command).pre = "test" THEN {0} ELSE Raws

resume_values(l, file) ==
    LET lines == read_lines(file, <<>>, <<>>)
    IN  IF l.catchup /\ lines # <<>>
        THEN dispatch_values(lines[Len(lines)]) ELSE {0}

\* the common options of the user, part of every command
Opts == { <<Tok("--tag", 1)>>,
          <<Tok(UPPER_NAME, 1), Tok(LOWER_NAME, 1)>>,
          <<Tok(UPPER_NAME, 1), Tok(LOWER_NAME, 2)>> }

\* the runs of the resume protocol: a feature search and a sweep
ResumeArgs ==
    [analysis : {"features"}, n : {0, 1, 2},
     staleness : {Some(2)}, penalty : {None},
     optimize : {ACCURACY}, k_folds : {1},
     min_nodes : {None}, max_nodes : {0}, nodes_step : {None},
     opts : Opts]
    \cup
    [analysis : {"nodes"}, n : {0},
     staleness : {None, Some(1)}, penalty : {None},
     optimize : {ACCURACY}, k_folds : {1},
     min_nodes : {Some(1)}, max_nodes : {2}, nodes_step : {Some(1)},
     opts : Opts]

\* the fresh feature searches: universes of up to MaxFeatures features
\* with a small or the default staleness, universes of up to 3 features
\* with a staleness of 2^3, and searches with other penalties and metrics
SearchArgs ==
    [analysis : {"features"}, n : 0..MaxFeatures,
     staleness : {None, Some(0), Some(1), Some(2)},
     penalty : {None},
     optimize : {ACCURACY}, k_folds : {1},
     min_nodes : {None}, max_nodes : {0}, nodes_step : {None},
     opts : {<<>>}]
    \cup
    [analysis : {"features"}, n : 0..3,
     staleness : {Some(2 ^ 3)},
     penalty : {None},
     optimize : {ACCURACY}, k_folds : {1},
     min_nodes : {None}, max_nodes : {0}, nodes_step : {None},
     opts : {<<>>}]
    \cup
    [analysis : {"features"}, n : {2},
     staleness : {None}, penalty : {Some(0), Some(2)},
     optimize : {ACCURACY, "mean_squared_error"}, k_folds : {1},
     min_nodes : {None}, max_nodes : {0}, nodes_step : {None},
     opts : {<<>>}]

\* the fresh sweeps; the steps are positive
SweepArgs ==
    [analysis : {"nodes"}, n : {0},
     staleness : {None, Some(0), Some(1), Some(2)},
     penalty : {None, Some(1)},
     optimize : {ACCURACY, "mean_squared_error"}, k_folds : {1},
     min_nodes : {Some(1), Some(2)}, max_nodes : 0..MaxThreshold,
     nodes_step : {Some(1), Some(2)},
     opts : {<<>>}]
    \cup
    [analysis : {"nodes"}, n : {0},
     staleness : {None}, penalty : {None},
     optimize : {ACCURACY}, k_folds : {1},
     min_nodes : {None}, max_nodes : {103}, nodes_step : {None},
     opts : {<<>>}]

\* the metrics an evaluation of the oracle can hold
OracleKeys == { {ACCURACY}, {R_SQUARED, "mean_squared_error"}, {R_SQUARED}, {} }

(***************************************************************************)
(* The start of a process.                                                 *)
(***************************************************************************)
ProcessStart ==
    /\ subcommand_list = <<>>
    /\ index = 0
    /\ inflight = <<>>
    /\ staleness = 0 /\ penalty = 0 /\ metric = ""
    /\ open_list = <<>> /\ closed_list = <<>> /\ children = <<>>
    /\ best_state = <<>> /\ best_score = NegInf /\ best_metric_value = NegInf
    /\ best_unchanged_count = 0
    /\ counter = 0 /\ loop_counter = 0
    /\ node_threshold = 0 /\ best_threshold = None
    /\ report = <<>>
    /\ calls = 0 /\ catchups = 0 /\ appended = 0

PureIdle ==
    /\ cmd_in = <<>> /\ cmd_out = <<>> /\ sc_in = <<>> /\ sc_out = <<>>

\* a first run, not resumed, in an empty output directory
Start(a, keys) ==
    /\ args = a
    /\ oracle_keys = keys
    /\ resume = FALSE /\ resume0 = FALSE
    /\ subcommand_file = <<>> /\ file_exists = FALSE
    /\ json_written = FALSE
    /\ outputs = <<>>
    /\ rows = <<>>
    /\ restarts = 0 /\ same_args = TRUE
    /\ prev = [pc |-> "none", report |-> <<>>]
    /\ pc = "start"
    /\ ProcessStart
    /\ PureIdle

Init == \E a \in ResumeArgs : Start(a, {ACCURACY})

(***************************************************************************)
(* create_features_analysis and create_nodes_analysis up to the first      *)
(* command: retrieve_subcommands when resuming, then create_kfold_json,    *)
(* which gives up resuming when a json file is missing.                    *)
(***************************************************************************)
analysis_start(kind) ==
    /\ pc = "start"
    /\ args.analysis = kind
    /\ IF resume /\ ~file_exists
       THEN fails("IOError")
       ELSE /\ subcommand_list' = IF resume
                                  THEN retrieve_subcommands(subcommand_file)
                                  ELSE subcommand_list
            /\ resume' = (resume /\ json_written)
            /\ json_written' = TRUE
            /\ index' = 0
            /\ pc' = "datasets"
            /\ UNCHANGED <<subcommand_file, file_exists, outputs, rows,
                           oracle_keys, args, inflight, local_vars,
                           open_list, closed_list, children, best_state,
                           best_score, best_metric_value,
                           best_unchanged_count, counter, loop_counter,
                           node_threshold, best_threshold, report,
                           count_vars, run_vars, pure_vars>>

create_features_analysis == analysis_start("features")

create_nodes_analysis == analysis_start("nodes")

(***************************************************************************)
(* create_kfold_datasets: one selection command per fold.                  *)
(***************************************************************************)
create_kfold_datasets ==
    /\ pc = "datasets"
    /\ index < args.k_folds
    /\ IF pop_fails
       THEN fails("IndexError")
       ELSE LET command == rebuild_command(selection_args(args, index))
                l == resume_step(resume, subcommand_list, command)
            IN  /\ apply_step(l, command)
                /\ \E value \in resume_values(l, subcommand_file) :
                      outputs' = IF l.catchup
                                 THEN main_dispatcher_resume(
                                          outputs, subcommand_file, value)
                                 ELSE outputs
                /\ pc' = IF l.run THEN "datasets_run" ELSE "datasets"
                /\ index' = IF l.run THEN index ELSE index + 1
                /\ UNCHANGED <<json_written, rows, oracle_keys, args,
                               local_vars, open_list, closed_list, children,
                               best_state, best_score, best_metric_value,
                               best_unchanged_count, counter, loop_counter,
                               node_threshold, best_threshold, report,
                               run_vars, pure_vars>>

\* main_dispatcher(args=command_args) of line 312 or 318 returns
create_kfold_datasets_run ==
    /\ pc = "datasets_run"
    /\ \E value \in dispatch_values(inflight) :
          outputs' = main_dispatcher(outputs, inflight, value)
    /\ inflight' = <<>>
    /\ index' = index + 1
    /\ pc' = "datasets"
    /\ UNCHANGED <<subcommand_file, file_exists, json_written, rows,
                   oracle_keys, args, ledger_vars, local_vars, open_list,
                   closed_list, children, best_state, best_score,
                   best_metric_value, best_unchanged_count, counter,
                   loop_counter, node_threshold, best_threshold, report,
                   count_vars, run_vars, pure_vars>>

(***************************************************************************)
(* best_first_search.                                                      *)
(***************************************************************************)
\* lines 443-488
best_first_search ==
    /\ pc = "datasets"
    /\ index = args.k_folds
    /\ args.analysis = "features"
    /\ rows' = <<>>
    /\ staleness' = or_default(args.staleness, DEFAULT_STALENESS)
    /\ penalty' = or_default(args.penalty, DEFAULT_PENALTY)
    /\ open_list' = << <<[i \in 1..args.n |-> FALSE], NegInf, NegInf>> >>
    /\ closed_list' = <<>>
    /\ best_state' = [i \in 1..args.n |-> FALSE]
    /\ best_score' = NegInf
    /\ best_metric_value' = NegInf
    /\ best_unchanged_count' = 0
    /\ metric' = args.optimize
    /\ counter' = 0
    /\ loop_counter' = 0
    /\ pc' = "search"
    /\ UNCHANGED <<disk_vars, oracle_keys, args, ledger_vars, index,
                   inflight, children, node_threshold, best_threshold,
                   report, count_vars, run_vars, pure_vars>>

\* lines 489-523 of one iteration, and lines 544-561 when the loop ends
best_first_search_loop ==
    /\ pc = "search"
    /\ IF best_unchanged_count < staleness /\ open_list # <<>>
       THEN LET features_set == find_max_state(open_list)
                state == features_set[1]
                score == features_set[2]
                closed == Append(closed_list, features_set)
                open == list_remove(open_list, features_set)
                better == improves(score, best_score)
                todo == pending_children(expand_state(state), open, closed)
            IN  /\ loop_counter' = loop_counter + 1
                /\ rows' = Append(rows,
                       [step |-> loop_counter + 1, state |-> state,
                        score |-> score, metric_value |-> features_set[3],
                        best_score |-> best_score])
                /\ closed_list' = closed
                /\ open_list' = open
                /\ best_state' = IF better THEN state ELSE best_state
                /\ best_score' = IF better THEN score ELSE best_score
                /\ best_metric_value' = IF better THEN features_set[3]
                                        ELSE best_metric_value
                /\ best_unchanged_count' = IF better THEN 0
                                           ELSE best_unchanged_count + 1
                /\ children' = todo
                /\ pc' = IF todo = <<>> THEN "search" ELSE "expand"
                /\ report' = report
       ELSE /\ report' = [best |-> input_fields(best_state),
                          value |-> best_metric_value,
                          evaluated |-> Len(open_list) + Len(closed_list) - 1]
            /\ pc' = "done"
            /\ UNCHANGED <<rows, open_list, closed_list, children,
                           best_state, best_score, best_metric_value,
                           best_unchanged_count, loop_counter>>
    /\ UNCHANGED <<disk_vars, oracle_keys, args, ledger_vars, index,
                   inflight, local_vars, counter, node_threshold,
                   best_threshold, count_vars, run_vars, pure_vars>>

\* kfold_evaluate once the evaluation is there: lines 404-411, 591-606, 543
kfold_return(outs, key) ==
    IF key \notin DOMAIN outs
    THEN /\ pc' = "Failed to retrieve evaluation."
         /\ UNCHANGED <<open_list, children, metric>>
    ELSE LET child == Head(children)
             r == kfold_score(evaluation_of(outs[key].val), metric, penalty,
                              model_fields_of(child))
             open == Append(open_list, <<child, r.score, r.metric_value>>)
             todo == pending_children(Tail(children), open, closed_list)
         IN  IF r.fatal
             THEN /\ pc' = "Failed to find metric"
                  /\ UNCHANGED <<open_list, children, metric>>
             ELSE /\ open_list' = open
                  /\ children' = todo
                  /\ metric' = r.metric
                  /\ pc' = IF todo = <<>> THEN "search" ELSE "expand"

\* lines 524-542 and create_kfold_evaluations up to the dispatcher
kfold_evaluate ==
    /\ pc = "expand"
    /\ IF pop_fails
       THEN fails("IndexError")
       ELSE LET command == rebuild_command(create_cv_args(
                               args, counter + 1,
                               model_fields_of(Head(children))))
                l == resume_step(resume, subcommand_list, command)
            IN  /\ apply_step(l, command)
                /\ counter' = counter + 1
                /\ \E value \in resume_values(l, subcommand_file) :
                      LET outs == IF l.catchup
                                  THEN main_dispatcher_resume(
                                           outputs, subcommand_file, value)
                                  ELSE outputs
                      IN  /\ outputs' = outs
                          /\ IF l.run
                             THEN /\ pc' = "expand_run"
                                  /\ UNCHANGED <<open_list, children, metric>>
                             ELSE kfold_return(outs, output_of(command))
                /\ UNCHANGED <<json_written, rows, oracle_keys, args, index,
                               staleness, penalty, closed_list, best_state,
                               best_score, best_metric_value,
                               best_unchanged_count, loop_counter,
                               node_threshold, best_threshold, report,
                               run_vars, pure_vars>>

\* main_dispatcher(args=command_args) of line 397 or 403 returns
kfold_evaluate_run ==
    /\ pc = "expand_run"
    /\ \E value \in dispatch_values(inflight) :
          LET outs == main_dispatcher(outputs, inflight, value)
          IN  /\ outputs' = outs
              /\ kfold_return(outs, output_of(inflight))
    /\ inflight' = <<>>
    /\ UNCHANGED <<subcommand_file, file_exists, json_written, rows,
                   oracle_keys, args, ledger_vars, index, staleness, penalty,
                   closed_list, best_state, best_score, best_metric_value,
                   best_unchanged_count, counter, loop_counter,
                   node_threshold, best_threshold, report, count_vars,
                   run_vars, pure_vars>>

(***************************************************************************)
(* best_node_threshold.                                                    *)
(***************************************************************************)
\* max_nodes without the + 1
max_nodes_exclusive == args.max_nodes

\* max_nodes = args.max_nodes + 1
max_nodes == args.max_nodes + 1

nodes_step == or_default(args.nodes_step, DEFAULT_NODES_STEP)

\* lines 615-639
best_node_threshold ==
    /\ pc = "datasets"
    /\ index = args.k_folds
    /\ args.analysis = "nodes"
    /\ rows' = <<>>
    /\ node_threshold' = or_default(args.min_nodes, DEFAULT_MIN_NODES)
    /\ staleness' = or_default(args.staleness, DEFAULT_STALENESS)
    /\ penalty' = or_default(args.penalty, DEFAULT_NODES_PENALTY)
    /\ best_score' = NegInf
    /\ best_unchanged_count' = 0
    /\ metric' = args.optimize
    /\ loop_counter' = 0
    /\ best_threshold' = None
    /\ pc' = "nodes"
    /\ UNCHANGED <<disk_vars, oracle_keys, args, ledger_vars, index,
                   inflight, open_list, closed_list, children, best_state,
                   best_metric_value, counter, report, count_vars, run_vars,
                   pure_vars>>

\* node_threshold_evaluate once the evaluation is there: lines 742-749,
\* 694-708, then lines 649-670 of the loop
node_threshold_return(outs, key, step) ==
    IF key \notin DOMAIN outs
    THEN /\ pc' = "Failed to retrieve evaluation."
         /\ UNCHANGED <<rows, metric, best_threshold, best_score,
                        best_unchanged_count, node_threshold>>
    ELSE LET r == node_threshold_score(evaluation_of(outs[key].val), metric,
                                       penalty, node_threshold)
             better == improves(r.score, best_score)
         IN  IF r.fatal
             THEN /\ pc' = "Failed to find metric"
                  /\ UNCHANGED <<rows, metric, best_threshold, best_score,
                                 best_unchanged_count, node_threshold>>
             ELSE /\ rows' = Append(rows,
                         [step |-> step,
                          node_threshold |-> node_threshold,
                          score |-> r.score, metric_value |-> r.metric_value,
                          best_score |-> best_score])
                  /\ metric' = r.metric
                  /\ best_threshold' = IF better THEN Some(node_threshold)
                                       ELSE best_threshold
                  /\ best_score' = IF better THEN r.score ELSE best_score
                  /\ best_unchanged_count' = IF better THEN 0
                                             ELSE best_unchanged_count + 1
                  /\ node_threshold' = node_threshold + nodes_step
                  /\ pc' = "nodes"

\* the loop test of line 640, then lines 641-648 and
\* create_node_th_evaluations up to the dispatcher, or lines 672-680 when
\* the loop ends: best_threshold is unbound if no iteration assigned it
best_node_threshold_loop ==
    /\ pc = "nodes"
    /\ IF best_unchanged_count < staleness /\ node_threshold < max_nodes
       THEN IF pop_fails
            THEN fails("IndexError")
            ELSE LET command == rebuild_command(
                                    node_threshold_args(args, node_threshold))
                     l == resume_step(resume, subcommand_list, command)
                 IN  /\ apply_step(l, command)
                     /\ loop_counter' = loop_counter + 1
                     /\ \E value \in resume_values(l, subcommand_file) :
                           LET outs == IF l.catchup
                                       THEN main_dispatcher_resume(
                                                outputs, subcommand_file, value)
                                       ELSE outputs
                           IN  /\ outputs' = outs
                               /\ IF l.run
                                  THEN /\ pc' = "nodes_run"
                                       /\ UNCHANGED <<rows, metric,
                                              best_threshold, best_score,
                                              best_unchanged_count,
                                              node_threshold>>
                                  ELSE node_threshold_return(
                                           outs, output_of(command),
                                           loop_counter + 1)
                     /\ UNCHANGED <<json_written, oracle_keys, args, index,
                                    staleness, penalty, open_list,
                                    closed_list, children, best_state,
                                    best_metric_value, counter, report,
                                    run_vars, pure_vars>>
       ELSE IF best_threshold = None
            THEN fails("UnboundLocalError")
            ELSE /\ report' = [best |-> best_threshold[1],
                               value |-> best_score]
                 /\ pc' = "done"
                 /\ UNCHANGED <<disk_vars, rows, oracle_keys, args,
                                ledger_vars, index, inflight, local_vars,
                                open_list, closed_list, children, best_state,
                                best_score, best_metric_value,
                                best_unchanged_count, counter, loop_counter,
                                node_threshold, best_threshold, count_vars,
                                run_vars, pure_vars>>

\* main_dispatcher(args=command_args) of line 735 or 741 returns
node_threshold_evaluate_run ==
    /\ pc = "nodes_run"
    /\ \E value \in dispatch_values(inflight) :
          LET outs == main_dispatcher(outputs, inflight, value)
          IN  /\ outputs' = outs
              /\ node_threshold_return(outs, output_of(inflight),
                                       loop_counter)
    /\ inflight' = <<>>
    /\ UNCHANGED <<subcommand_file, file_exists, json_written, oracle_keys,
                   args, ledger_vars, index, staleness, penalty, open_list,
                   closed_list, children, best_state, best_metric_value,
                   counter, loop_counter, report, count_vars, run_vars,
                   pure_vars>>

(***************************************************************************)
(* The process ends, at any point, and the user starts the analysis again, *)
(* with or without --resume and with the same or other common options.     *)
(* What is on disk stays.                                                  *)
(***************************************************************************)
restart ==
    /\ pc # "start"
    /\ restarts < MaxRestarts
    /\ restarts' = restarts + 1
    /\ \E r \in BOOLEAN, o \in Opts :
          /\ resume' = r
          /\ resume0' = r
          /\ args' = [args EXCEPT !.opts = o]
          /\ same_args' = (same_args /\ o = args.opts)
    /\ prev' = [pc |-> IF pc = "done" THEN "done" ELSE "interrupted",
                report |-> report]
    /\ pc' = "start"
    /\ subcommand_list' = <<>>
    /\ index' = 0
    /\ inflight' = <<>>
    /\ staleness' = 0 /\ penalty' = 0 /\ metric' = ""
    /\ open_list' = <<>> /\ closed_list' = <<>> /\ children' = <<>>
    /\ best_state' = <<>> /\ best_score' = NegInf
    /\ best_metric_value' = NegInf
    /\ best_unchanged_count' = 0
    /\ counter' = 0 /\ loop_counter' = 0
    /\ node_threshold' = 0 /\ best_threshold' = None
    /\ report' = <<>>
    /\ calls' = 0 /\ catchups' = 0 /\ appended' = 0
    /\ UNCHANGED <<disk_vars, rows, oracle_keys, pure_vars>>

(***************************************************************************)
(* Spec: runs of either analysis that can be interrupted and started       *)
(* again.  SpecSearch: the feature searches of a first run.  SpecSweep:    *)
(* the sweeps of a first run.                                              *)
(***************************************************************************)
Next ==
    \/ create_features_analysis
    \/ create_nodes_analysis
    \/ create_kfold_datasets
    \/ create_kfold_datasets_run
    \/ best_first_search
    \/ best_first_search_loop
    \/ kfold_evaluate
    \/ kfold_evaluate_run
    \/ best_node_threshold
    \/ best_node_threshold_loop
    \/ node_threshold_evaluate_run
    \/ restart

Spec == Init /\ [][Next]_vars

\* the evaluations of the greater universes hold the requested metric
InitSearch ==
    \E a \in SearchArgs, keys \in OracleKeys :
        /\ a.n > 2 => keys = {ACCURACY}
        /\ Start(a, keys)

NextSearch ==
    \/ create_features_analysis
    \/ create_kfold_datasets
    \/ create_kfold_datasets_run
    \/ best_first_search
    \/ best_first_search_loop
    \/ kfold_evaluate
    \/ kfold_evaluate_run

SpecSearch == InitSearch /\ [][NextSearch]_vars

\* the search with every step that can be taken taken in the end: the
\* statements of the loop run and the dispatcher returns
\* (universes of more than 3 features are searched with a given staleness)
InitSearchFair ==
    \E a \in SearchArgs, keys \in OracleKeys :
        /\ a.n > 2 => keys = {ACCURACY}
        /\ a.n > 3 => a.staleness # None
        /\ Start(a, keys)

SpecSearchFair ==
    InitSearchFair /\ [][NextSearch]_vars /\ WF_vars(NextSearch)

InitSweep == \E a \in SweepArgs, keys \in OracleKeys : Start(a, keys)

NextSweep ==
    \/ create_nodes_analysis
    \/ create_kfold_datasets
    \/ create_kfold_datasets_run
    \/ best_node_threshold
    \/ best_node_threshold_loop
    \/ node_threshold_evaluate_run

SpecSweep == InitSweep /\ [][NextSweep]_vars


(***************************************************************************)
(* SpecCmd: different_command applied to a line of the ledger and a        *)
(* command, both built by rebuild_command from at most MaxTokens tokens.   *)
(***************************************************************************)
CmdTokens == {Tok("--a", 0), Tok("--b", 0),
              Tok(UPPER_NAME, 1), Tok(UPPER_NAME, 2),
              Tok(LOWER_NAME, 1), Tok(LOWER_NAME, 2)}

CmdArgs == UNION {[1..len -> CmdTokens] : len \in 0..MaxTokens}

\* no run is going on
NoRun ==
    /\ args = CHOOSE a \in ResumeArgs : TRUE
    /\ oracle_keys = {}
    /\ resume = FALSE /\ resume0 = FALSE
    /\ subcommand_file = <<>> /\ file_exists = FALSE
    /\ json_written = FALSE
    /\ outputs = <<>>
    /\ rows = <<>>
    /\ restarts = 0 /\ same_args = TRUE
    /\ prev = [pc |-> "none", report |-> <<>>]
    /\ pc = "pure"
    /\ ProcessStart

run_state == <<subcommand_file, file_exists, json_written, outputs, rows,
               oracle_keys, pc, args, resume, subcommand_list, index,
               inflight, staleness, penalty, metric, open_list, closed_list,
               children, best_state, best_score, best_metric_value,
               best_unchanged_count, counter, loop_counter, node_threshold,
               best_threshold, report, calls, catchups, appended, restarts,
               resume0, same_args, prev>>

\* run_state without pc
idle_state == <<subcommand_file, file_exists, json_written, outputs, rows,
                oracle_keys, args, resume, subcommand_list, index,
                inflight, staleness, penalty, metric, open_list, closed_list,
                children, best_state, best_score, best_metric_value,
                best_unchanged_count, counter, loop_counter, node_threshold,
                best_threshold, report, calls, catchups, appended, restarts,
                resume0, same_args, prev>>

InitCmd ==
    /\ NoRun
    /\ cmd_in \in {<<rebuild_command(n), rebuild_command(c)>> :
                       n \in CmdArgs, c \in CmdArgs}
    /\ cmd_out = <<>>
    /\ sc_in = <<>> /\ sc_out = <<>>

different_command_call ==
    /\ pc = "pure"
    /\ cmd_in # <<>>
    /\ cmd_out = <<>>
    /\ cmd_out' = <<different_command(cmd_in[1], cmd_in[2])>>
    /\ UNCHANGED <<run_state, cmd_in, sc_in, sc_out>>

NextCmd == different_command_call

SpecCmd == InitCmd /\ [][NextCmd]_vars

(***************************************************************************)
(* SpecScore: the scorer applied to one evaluation, one metric and one     *)
(* penalty, for feature subsets and for node thresholds of any size.       *)
(* sc_out holds what it returned so far.                                   *)
(***************************************************************************)
Metrics == {ACCURACY, "mean_squared_error", R_SQUARED}

Evaluations ==
    UNION {[{avg_key(m) : m \in keys} -> Raws] : keys \in SUBSET Metrics}

Penalties == {0, 1, 2}

Children == [1..MaxComplexity -> BOOLEAN] \ {[i \in 1..MaxComplexity |-> FALSE]}

InitScore ==
    /\ NoRun
    /\ cmd_in = <<>> /\ cmd_out = <<>>
    /\ sc_in \in [evaluation : Evaluations, metric : Metrics,
                  penalty : Penalties]
    /\ sc_out = {}

kfold_evaluate_score ==
    /\ pc = "pure"
    /\ sc_in # <<>>
    /\ \E child \in Children :
          LET r == kfold_score(sc_in.evaluation, sc_in.metric, sc_in.penalty,
                               model_fields_of(child))
          IN  IF r.fatal
              THEN /\ pc' = "Failed to find metric"
                   /\ sc_out' = sc_out
              ELSE /\ pc' = pc
                   /\ sc_out' = sc_out \cup
                          {[site |-> "kfold",
                            complexity |-> Len(input_fields(child)),
                            score |-> r.score,
                            metric_value |-> r.metric_value,
                            metric |-> r.metric]}
    /\ UNCHANGED <<idle_state, cmd_in, cmd_out, sc_in>>

node_threshold_evaluate_score ==
    /\ pc = "pure"
    /\ sc_in # <<>>
    /\ \E threshold \in 1..MaxComplexity :
          LET r == node_threshold_score(sc_in.evaluation, sc_in.metric,
                                        sc_in.penalty, threshold)
          IN  IF r.fatal
              THEN /\ pc' = "Failed to find metric"
                   /\ sc_out' = sc_out
              ELSE /\ pc' = pc
                   /\ sc_out' = sc_out \cup
                          {[site |-> "node_threshold",
                            complexity |-> threshold,
                            score |-> r.score,
                            metric_value |-> r.metric_value,
                            metric |-> r.metric]}
    /\ UNCHANGED <<idle_state, cmd_in, cmd_out, sc_in>>

NextScore == kfold_evaluate_score \/ node_threshold_evaluate_score

SpecScore == InitScore /\ [][NextScore]_vars

(***************************************************************************)
(* Properties.                                                             *)
(***************************************************************************)

\* C1: in best_first_search no state vector occurs twice in open_list +
\* closed_list: none is in both lists and none is twice in one list.
C1_NoDuplicateStates ==
    LET all == open_list \o closed_list
    IN  \A i, j \in 1..Len(all) : i # j => all[i][1] # all[j][1]

\* the search came back to states it had seen: three states are closed and
\* others wait
C1_Witness ==
    /\ pc = "search"
    /\ Len(closed_list) >= 3
    /\ Len(open_list) >= 2

\* C2: best_score never decreases; an iteration changes it only when the
\* state it closes scores more than best_score + EPSILON, and then
\* best_unchanged_count is 0; otherwise best_score stays and
\* best_unchanged_count grows by 1.  Nothing but an iteration changes them.
C2_BestMonotone ==
    [][ /\ best_score' >= best_score
        /\ IF pc = "search" /\ loop_counter' = loop_counter + 1
           THEN LET closed == closed_list'[Len(closed_list')]
                IN  IF closed[2] > best_score + EPSILON
                    THEN /\ best_score' = closed[2]
                         /\ best_unchanged_count' = 0
                    ELSE /\ best_score' = best_score
                         /\ best_unchanged_count' = best_unchanged_count + 1
           ELSE /\ best_score' = best_score
                /\ best_unchanged_count' = best_unchanged_count
      ]_vars

\* a state that scores exactly EPSILON more than the best was closed and
\* did not become the best
C2_Witness ==
    /\ pc = "search"
    /\ best_score > NegInf
    /\ best_unchanged_count >= 1
    /\ \E i \in 1..Len(closed_list) : closed_list[i][2] = best_score + EPSILON

\* C6: the sweep evaluates min, min + step, min + 2 * step, ... in this
\* order, one call of the dispatcher each, only while best_unchanged_count
\* < staleness and the threshold is at most max_nodes, and it ends as soon
\* as one of the two fails; min 3, max 103, step 100, staleness 5 gives the
\* two evaluations 3 and 103.
C6_SweepThresholds ==
    LET min == or_default(args.min_nodes, DEFAULT_MIN_NODES)
        swept == pc \in {"nodes", "nodes_run", "done", "UnboundLocalError"}
    IN  /\ \A i \in 1..Len(rows) :
              /\ rows[i].step = i
              /\ rows[i].node_threshold = min + (i - 1) * nodes_step
              /\ rows[i].node_threshold <= args.max_nodes
        /\ pc = "nodes_run" =>
              /\ best_unchanged_count < staleness
              /\ node_threshold <= args.max_nodes
        /\ swept => node_threshold = min + Len(rows) * nodes_step
        /\ swept => calls - args.k_folds =
                       Len(rows) + (IF pc = "nodes_run" THEN 1 ELSE 0)
        /\ pc \in {"done", "UnboundLocalError"} =>
              \/ best_unchanged_count >= staleness
              \/ node_threshold > args.max_nodes
        /\ (/\ pc = "done"
            /\ min = 3 /\ args.max_nodes = 103 /\ nodes_step = 100
            /\ staleness = 5)
           => /\ Len(rows) = 2
              /\ rows[1].node_threshold = 3
              /\ rows[2].node_threshold = 103

\* the sweep from 3 to 103 by steps of 100 has ended
C6_Witness ==
    /\ pc = "done"
    /\ args.min_nodes = None /\ args.max_nodes = 103
    /\ args.nodes_step = None /\ staleness = 5
    /\ Len(rows) = 2

\* C7: with staleness greater than 2^n - 1 for n features, the search never
\* reaches staleness: it ends with open_list empty and all 2^n states in
\* closed_list.
C7_ExhaustiveBound ==
    staleness > 2 ^ args.n - 1
    => /\ (pc = "search" /\ open_list # <<>>)
             => best_unchanged_count < staleness
       /\ pc = "done" => /\ open_list = <<>>
                         /\ Len(closed_list) = 2 ^ args.n

\* a search over 3 features with staleness above 7 has ended
C7_Witness ==
    /\ pc = "done"
    /\ args.n = 3
    /\ staleness > 7
    /\ Len(closed_list) = 8

(***************************************************************************)
(* The call sites seen from outside: a state where the next step of the    *)
(* process hands a command to the resume protocol, and that command.       *)
(***************************************************************************)
invoking ==
    \/ pc = "datasets" /\ index < args.k_folds
    \/ pc = "expand"
    \/ /\ pc = "nodes"
       /\ best_unchanged_count < staleness
       /\ node_threshold < max_nodes

current_command ==
    IF pc = "datasets"
    THEN rebuild_command(selection_args(args, index))
    ELSE IF pc = "expand"
         THEN rebuild_command(create_cv_args(
                  args, counter + 1, model_fields_of(Head(children))))
         ELSE rebuild_command(node_threshold_args(args, node_threshold))

\* a command without its generated default name "name=BigMLer_<suffix>"
strip_default_name(s) ==
    [i \in DOMAIN s |-> IF s[i].pre = UPPER_NAME THEN EmptyTok ELSE s[i]]

\* the two commands are the same but for the generated default name
same_command(next_command, command) ==
    strip_default_name(next_command) = strip_default_name(command)

\* the entry the next pop returns: the oldest line not consumed
next_entry == subcommand_list[Len(subcommand_list)]

\* C3: when a resumed run pops an entry that differs from the command
\* about to be issued, it appends the command to the ledger, executes it
\* and switches resume off.
C3_DivergenceFallback ==
    [][ (/\ restarts' = restarts
         /\ resume /\ invoking
         /\ subcommand_list # <<>>
         /\ ~same_command(next_entry, current_command))
        => /\ resume' = FALSE
           /\ subcommand_file' = subcommand_file \o current_command
           /\ inflight' = current_command
           /\ calls' = calls + 1
      ]_vars

\* C4: a run resumed, with the same options, on the ledger of a run that
\* completed issues no command, appends nothing to the ledger, does not
\* fail and ends with the report of the run that completed.
C4_ReplayIdempotent ==
    (/\ restarts >= 1
     /\ prev.pc = "done"
     /\ same_args
     /\ resume0)
    => /\ calls = 0
       /\ appended = 0
       /\ inflight = <<>>
       /\ pc \notin Failures
       /\ pc = "done" => report = prev.report

\* the replay of a completed run has ended, after its catch-up
C4_Witness ==
    /\ restarts >= 1
    /\ prev.pc = "done"
    /\ same_args
    /\ resume0
    /\ pc = "done"
    /\ catchups = 1
    /\ report = prev.report
    /\ Len(read_lines(subcommand_file, <<>>, <<>>)) >= 3

\* C8: within a run the resume flag never goes from false to true, and an
\* invocation made with the flag false pops nothing, appends its command
\* to the ledger and executes it.
C8_ResumeOneWay ==
    [][ restarts' = restarts
        => /\ ~resume => ~resume'
           /\ (~resume /\ invoking)
              => /\ subcommand_list' = subcommand_list
                 /\ subcommand_file' = subcommand_file \o current_command
                 /\ appended' = appended + 1
                 /\ calls' = calls + 1
                 /\ inflight' = current_command
      ]_vars

\* a resumed run left resume mode with entries not consumed, and issued
\* commands after that
C8_Witness ==
    /\ resume0
    /\ ~resume
    /\ subcommand_list # <<>>
    /\ appended >= 2

\* C9: different_command reports two commands as not different exactly
\* when they are equal after the generated default name is removed.
C9_SameAfterStrip ==
    cmd_out # <<>>
    => cmd_out[1] = ~same_command(cmd_in[1], cmd_in[2])

\* C10: score = invert * raw - penalty * complexity at both call sites; for
\* one raw value and a positive penalty the score of the greater
\* complexity is strictly smaller, for maximised and minimised metrics.
C10_PenaltyDirection ==
    \A r1 \in sc_out :
        /\ r1.score = invert_of(sc_in.metric) * r1.metric_value
                      - sc_in.penalty * r1.complexity
        /\ \A r2 \in sc_out :
              (/\ sc_in.penalty > 0
               /\ r1.metric_value = r2.metric_value
               /\ r1.complexity < r2.complexity)
              => r1.score > r2.score

\* a minimised metric was scored with a positive penalty for a small and a
\* greater complexity at both call sites
C10_Witness ==
    /\ sc_in # <<>>
    /\ sc_in.metric \in MINIMIZE_OPTIONS
    /\ sc_in.penalty > 0
    /\ \E r1, r2 \in sc_out :
          /\ r1.site = "kfold" /\ r2.site = "node_threshold"
          /\ r1.complexity < r2.complexity
          /\ r1.score > r2.score

(***************************************************************************)
(* The uninterrupted run: what the analysis of args does with the answers  *)
(* the oracle has given so far, kept in outputs.  ok is FALSE when the run *)
(* needs an answer that is not there yet; cmds are its commands in order,  *)
(* up to the first one without an answer.                                  *)
(***************************************************************************)
known(command) ==
    /\ output_of(command) \in DOMAIN outputs
    /\ outputs[output_of(command)].cmd = command

answer(command) == evaluation_of(outputs[output_of(command)].val)

RECURSIVE ref_datasets(_, _)
ref_datasets(i, cmds) ==
    IF i = args.k_folds
    THEN [ok |-> TRUE, cmds |-> cmds]
    ELSE LET command == rebuild_command(selection_args(args, i))
         IN  IF known(command)
             THEN ref_datasets(i + 1, Append(cmds, command))
             ELSE [ok |-> FALSE, cmds |-> Append(cmds, command)]

RECURSIVE ref_children(_, _, _)
ref_children(todo, closed, st) ==
    IF todo = <<>> \/ ~st.ok
    THEN st
    ELSE LET child == Head(todo)
             command == rebuild_command(create_cv_args(
                            args, st.counter + 1, model_fields_of(child)))
             cmds == Append(st.cmds, command)
         IN  IF ~known(command)
             THEN [st EXCEPT !.cmds = cmds, !.ok = FALSE]
             ELSE LET r == kfold_score(answer(command), st.metric,
                               or_default(args.penalty, DEFAULT_PENALTY),
                               model_fields_of(child))
                      open == Append(st.open,
                                     <<child, r.score, r.metric_value>>)
                  IN  IF r.fatal
                      THEN [st EXCEPT !.cmds = cmds, !.ok = FALSE]
                      ELSE ref_children(
                               pending_children(Tail(todo), open, closed),
                               closed,
                               [open |-> open, counter |-> st.counter + 1,
                                metric |-> r.metric, cmds |-> cmds,
                                ok |-> TRUE])

RECURSIVE ref_search(_, _, _)
ref_search(closed, best, st) ==
    IF ~st.ok
    THEN [ok |-> FALSE, cmds |-> st.cmds, report |-> <<>>]
    ELSE IF /\ best.count < or_default(args.staleness, DEFAULT_STALENESS)
            /\ st.open # <<>>
         THEN LET features_set == find_max_state(st.open)
                  closed2 == Append(closed, features_set)
                  open2 == list_remove(st.open, features_set)
                  better == improves(features_set[2], best.score)
                  best2 == IF better
                           THEN [state |-> features_set[1],
                                 score |-> features_set[2],
                                 metric_value |-> features_set[3],
                                 count |-> 0]
                           ELSE [best EXCEPT !.count = best.count + 1]
              IN  ref_search(closed2, best2,
                      ref_children(
                          pending_children(expand_state(features_set[1]),
                                           open2, closed2),
                          closed2, [st EXCEPT !.open = open2]))
         ELSE [ok |-> TRUE, cmds |-> st.cmds,
               report |-> [best |-> input_fields(best.state),
                           value |-> best.metric_value,
                           evaluated |-> Len(st.open) + Len(closed) - 1]]

RECURSIVE ref_sweep(_, _, _)
ref_sweep(threshold, best, st) ==
    IF /\ best.count < or_default(args.staleness, DEFAULT_STALENESS)
       /\ threshold < max_nodes
    THEN LET command == rebuild_command(node_threshold_args(args, threshold))
             cmds == Append(st.cmds, command)
         IN  IF ~known(command)
             THEN [ok |-> FALSE, cmds |-> cmds, report |-> <<>>]
             ELSE LET r == node_threshold_score(answer(command), st.metric,
                               or_default(args.penalty, DEFAULT_NODES_PENALTY),
                               threshold)
                      better == improves(r.score, best.score)
                      best2 == IF better
                               THEN [threshold |-> Some(threshold),
                                     score |-> r.score, count |-> 0]
                               ELSE [best EXCEPT !.count = best.count + 1]
                  IN  IF r.fatal
                      THEN [ok |-> FALSE, cmds |-> cmds, report |-> <<>>]
                      ELSE ref_sweep(threshold + nodes_step, best2,
                                     [metric |-> r.metric, cmds |-> cmds])
    ELSE IF best.threshold = None
         THEN [ok |-> FALSE, cmds |-> st.cmds, report |-> <<>>]
         ELSE [ok |-> TRUE, cmds |-> st.cmds,
               report |-> [best |-> best.threshold[1], value |-> best.score]]

Reference ==
    LET d == ref_datasets(0, <<>>)
    IN  IF ~d.ok
        THEN [ok |-> FALSE, cmds |-> d.cmds, report |-> <<>>]
        ELSE IF args.analysis = "features"
             THEN ref_search(<<>>,
                      [state |-> [i \in 1..args.n |-> FALSE],
                       score |-> NegInf, metric_value |-> NegInf,
                       count |-> 0],
                      [open |-> << <<[i \in 1..args.n |-> FALSE],
                                     NegInf, NegInf>> >>,
                       counter |-> 0, metric |-> args.optimize,
                       cmds |-> d.cmds, ok |-> TRUE])
             ELSE ref_sweep(or_default(args.min_nodes, DEFAULT_MIN_NODES),
                      [threshold |-> None, score |-> NegInf, count |-> 0],
                      [metric |-> args.optimize, cmds |-> d.cmds])

is_prefix(s, t) == Len(s) <= Len(t) /\ s = SubSeq(t, 1, Len(s))

ledger == read_lines(subcommand_file, <<>>, <<>>)

\* a run that was never interrupted ends with the report of Reference and
\* its ledger holds the commands of Reference
ReferenceIsTheFirstRun ==
    restarts = 0
    => /\ is_prefix(ledger, Reference.cmds)
       /\ pc = "done" => /\ Reference.ok
                         /\ report = Reference.report
                         /\ ledger = Reference.cmds

\* C5: a first run is interrupted at any point and started again with
\* --resume and the same options: the new run does not fail, executes no
\* command that had completed, keeps the ledger a prefix of the commands of
\* the uninterrupted run and ends with the report of the uninterrupted run.
C5_CrashResume ==
    (/\ restarts = 1
     /\ prev.pc = "interrupted"
     /\ same_args
     /\ resume0)
    => /\ pc \notin Failures
       /\ ~(inflight # <<>> /\ known(inflight))
       /\ is_prefix(ledger, Reference.cmds)
       /\ pc = "done" => /\ Reference.ok
                         /\ report = Reference.report

\* the same, for the interruptions that come after the first command was
\* written to the ledger
C5_AfterFirstCommand ==
    (/\ restarts = 1
     /\ prev.pc = "interrupted"
     /\ same_args
     /\ resume0
     /\ pc # "IOError")
    => /\ pc \notin Failures
       /\ ~(inflight # <<>> /\ known(inflight))
       /\ is_prefix(ledger, Reference.cmds)
       /\ pc = "done" => /\ Reference.ok
                         /\ report = Reference.report

\* C11: when best_first_search has ended, no entry of open_list or
\* closed_list has a score greater than best_score + EPSILON.
C11_BestIsHighest ==
    (pc = "done" /\ args.analysis = "features")
    => \A i \in 1..Len(open_list \o closed_list) :
          (open_list \o closed_list)[i][2] <= best_score + EPSILON

\* the same for the entries of closed_list alone, the ones the loop
\* compared with best_score
C11_ClosedOnly ==
    (pc = "done" /\ args.analysis = "features")
    => \A i \in 1..Len(closed_list) :
          closed_list[i][2] <= best_score + EPSILON

\* C12: when the sweep has ended, it reports the best threshold and the
\* raw averaged metric value that was measured at that threshold.
C12_ReportsRawMetric ==
    (pc = "done" /\ args.analysis = "nodes")
    => \E i \in 1..Len(rows) :
          /\ rows[i].node_threshold = report.best
          /\ report.value = rows[i].metric_value

\* C13: the scorer uses average_<requested metric> and returns the
\* requested name when the evaluation holds it; else it uses
\* average_r_squared and returns "r_squared"; else the run ends in the
\* fatal error and no score was produced.
C13_MetricResolution ==
    sc_in # <<>>
    => LET evaluation == sc_in.evaluation
           requested == AVG_PREFIX \o sc_in.metric
           fallback == AVG_PREFIX \o R_SQUARED
       IN  /\ \A r \in sc_out :
                 IF requested \in DOMAIN evaluation
                 THEN /\ r.metric_value = evaluation[requested]
                      /\ r.metric = sc_in.metric
                 ELSE /\ fallback \in DOMAIN evaluation
                      /\ r.metric_value = evaluation[fallback]
                      /\ r.metric = R_SQUARED
           /\ (requested \notin DOMAIN evaluation
               /\ fallback \notin DOMAIN evaluation) => sc_out = {}
           /\ pc = "Failed to find metric"
              <=> (/\ requested \notin DOMAIN evaluation
                   /\ fallback \notin DOMAIN evaluation
                   /\ pc # "pure")
           /\ pc \in {"pure", "Failed to find metric"}

\* both call sites fell back to average_r_squared, whose value is not the
\* one of another metric of the evaluation
C13_Witness ==
    /\ sc_in # <<>>
    /\ sc_in.metric = ACCURACY
    /\ AVG_PREFIX \o ACCURACY \notin DOMAIN sc_in.evaluation
    /\ AVG_PREFIX \o "mean_squared_error" \in DOMAIN sc_in.evaluation
    /\ AVG_PREFIX \o R_SQUARED \in DOMAIN sc_in.evaluation
    /\ sc_in.evaluation[AVG_PREFIX \o "mean_squared_error"]
       # sc_in.evaluation[AVG_PREFIX \o R_SQUARED]
    /\ \E r1, r2 \in sc_out :
          /\ r1.site = "kfold" /\ r2.site = "node_threshold"
          /\ r1.metric = R_SQUARED /\ r2.metric = R_SQUARED

\* the fatal error of the scorer in a search: the evaluation was asked for
\* and no state was added to open_list
C13_NothingAdded ==
    (pc = "Failed to find metric" /\ args.analysis = "features")
    => /\ inflight = <<>>
       /\ Len(open_list) + Len(closed_list) = counter

\* C14: a run started with --resume when the ledger file does not exist
\* does not end in an error: it goes on as a fresh run, with resume off.
C14_MissingLedgerIsFresh ==
    [][ (/\ pc = "start"
         /\ resume
         /\ ~file_exists
         /\ restarts' = restarts)
        => /\ pc' = "datasets"
           /\ resume' = FALSE
      ]_vars

\* the last n elements of s
last_lines(s, n) == SubSeq(s, Len(s) - n + 1, Len(s))

\* C15: a run that is not resuming writes each command to the ledger
\* before the dispatcher is called with it, once per call: the lines it
\* wrote are, in order, the commands it has started, the last of them the
\* one that is running; in a first run the ledger has as many lines as
\* there are completed calls, or one more.
C15_LoggedBeforeCall ==
    ~resume0
    => /\ appended = calls
       /\ appended <= Len(ledger)
       /\ is_prefix(last_lines(ledger, appended), Reference.cmds)
       /\ inflight # <<>> => /\ appended >= 1
                             /\ ledger[Len(ledger)] = inflight
       /\ restarts = 0
          => /\ Len(ledger) = appended
             /\ Len(ledger) - Cardinality(DOMAIN outputs)
                = (IF inflight # <<>> THEN 1 ELSE 0)
             /\ \A i \in 1..Len(ledger) :
                   known(ledger[i]) \/ (i = Len(ledger) /\ inflight # <<>>)

\* a first run with three lines in the ledger, the command of the last
\* one running
C15_Witness ==
    /\ restarts = 0
    /\ Len(ledger) = 3
    /\ inflight = ledger[3]
    /\ Cardinality(DOMAIN outputs) = 2

\* the invocations the run has made so far
invocations ==
    index + (IF args.analysis = "features" THEN counter ELSE loop_counter)

\* C16: while resume is on, the entries not consumed are the lines of the
\* ledger after the first k, k being the number of invocations made, and
\* the next pop returns line k + 1: the lines are consumed oldest first,
\* one per invocation, each once.
C16_ConsumedInOrder ==
    (resume /\ pc \notin {"start", "pure"} /\ pc \notin Failures)
    => /\ invocations <= Len(ledger)
       /\ subcommand_list
          = reverse(SubSeq(ledger, invocations + 1, Len(ledger)))
       /\ subcommand_list # <<>> => next_entry = ledger[invocations + 1]

\* a resumed run has consumed two lines and the third is next
C16_Witness ==
    /\ resume
    /\ invocations = 2
    /\ Len(ledger) >= 4
    /\ next_entry = ledger[3]
    /\ ledger[3] # ledger[4]

\* C17: within a run 'main --resume' is called in a step exactly when the
\* step is an invocation with resume on that pops the last entry left and
\* finds it not different from its command; that step turns resume off
\* and writes nothing to the ledger, so it happens at most once in a run.
C17_CatchUpOnce ==
    [][ restarts' = restarts
        => /\ catchups' \in {catchups, catchups + 1}
           /\ catchups' = catchups + 1
              <=> (/\ resume /\ invoking
                   /\ Len(subcommand_list) = 1
                   /\ ~different_command(next_entry, current_command))
           /\ catchups' = catchups + 1
              => /\ catchups = 0
                 /\ resume' = FALSE
                 /\ subcommand_list' = <<>>
                 /\ subcommand_file' = subcommand_file
                 /\ appended' = appended
                 /\ calls' = calls
      ]_vars

\* a resumed run made its catch-up after consuming several entries and
\* went on issuing commands
C17_Witness ==
    /\ resume0
    /\ catchups = 1
    /\ ~resume
    /\ invocations >= 3
    /\ appended >= 1

\* the lines of the ledger that ask for an evaluation of a feature subset,
\* and the subset a line asks for
evaluation_lines == SelectSeq(ledger, LAMBDA c : output_of(c).pre = "kfold")

submitted(command) == SubSeq(command, 3, Len(command))

\* C18: in a search no feature subset is submitted twice and the empty
\* subset is never submitted; the subsets submitted and evaluated are the
\* states of open_list and closed_list but the initial one, so the number
\* of evaluations requested is Len(open_list) + Len(closed_list) - 1 (one
\* more while an evaluation is running), which is the number reported.
C18_EvaluatedOnce ==
    pc \in {"search", "expand", "expand_run", "done"}
    => LET lines == evaluation_lines
           all == open_list \o closed_list
           running == IF pc = "expand_run" THEN 1 ELSE 0
       IN  /\ Len(lines) = counter
           /\ \A i, j \in 1..Len(lines) :
                 i # j => submitted(lines[i]) # submitted(lines[j])
           /\ \A i \in 1..Len(lines) :
                 /\ lines[i][3] = Tok("--model-fields", 0)
                 /\ lines[i][4].pre = "field"
           /\ counter = Len(all) - 1 + running
           /\ \A i \in 1..Len(all) :
                 (\E k \in 1..Len(all[i][1]) : all[i][1][k])
                 => \E j \in 1..Len(lines) :
                       lines[j] = rebuild_command(create_cv_args(
                                      args, j, model_fields_of(all[i][1])))
           /\ pc = "done" => report.evaluated = counter

\* a search over 3 features has ended after evaluating 5 subsets or more
C18_Witness ==
    /\ pc = "done"
    /\ args.n = 3
    /\ counter >= 5
    /\ report.evaluated = counter
    /\ open_list # <<>>

\* C19: an iteration of the search moves exactly one element from
\* open_list to the end of closed_list: no element of open_list scores
\* more, and the elements before it, inserted earlier, score less.
C19_SelectionRule ==
    [][ (pc = "search" /\ loop_counter' = loop_counter + 1)
        => \E i \in 1..Len(open_list) :
              /\ \A j \in 1..Len(open_list) :
                    open_list[j][2] <= open_list[i][2]
              /\ \A j \in 1..(i - 1) : open_list[j][2] < open_list[i][2]
              /\ closed_list' = Append(closed_list, open_list[i])
              /\ open_list' = SubSeq(open_list, 1, i - 1)
                              \o SubSeq(open_list, i + 1, Len(open_list))
      ]_vars

\* the element just closed was tied for the maximum with one that is
\* still in open_list
C19_Witness ==
    /\ pc \in {"search", "expand"}
    /\ Len(closed_list) >= 2
    /\ \E j \in 1..Len(open_list) :
          open_list[j][2] = closed_list[Len(closed_list)][2]
    /\ Len(open_list) >= 2

\* the evaluations of the run hold the requested metric or r_squared
scores_found ==
    AVG_PREFIX \o args.optimize \in {AVG_PREFIX \o m : m \in oracle_keys}
    \/ R_SQUARED \in oracle_keys

\* C20: best_first_search ends, for every staleness >= 0 and every oracle
\* that returns scores, after at most 2^n iterations for n features; when
\* it has ended, best_unchanged_count >= staleness or open_list is empty;
\* closed_list only grows and none of its states is in open_list again.
C20_SearchTerminates ==
    /\ scores_found => <>(pc = "done")
    /\ [](loop_counter <= 2 ^ args.n)
    /\ [](pc = "done"
          => (best_unchanged_count >= staleness \/ open_list = <<>>))
    /\ [][ /\ is_prefix(closed_list, closed_list')
           /\ \A i \in 1..Len(closed_list) :
                 ~in_states(closed_list[i][1], open_list')
         ]_vars

\* a search over 3 features ended on staleness 2 after 4 iterations, with
\* states left in open_list
C20_Witness ==
    /\ pc = "done"
    /\ args.n = 3
    /\ staleness = 2
    /\ loop_counter = 4
    /\ best_unchanged_count >= staleness
    /\ open_list # <<>>


(***************************************************************************)
(* The record of the sweep.                                                *)
(***************************************************************************)
\* row i of the sweep took its threshold as the best one: the test of
\* line 652 on the score and the best_score written to the row (line 650)
adopted(i) == rows[i].score > rows[i].best_score + EPSILON

C22_InitialStateCounts ==
    LET initial_state == [i \in 1..args.n |-> FALSE]
    IN  /\ (pc \in {"search", "expand", "expand_run"} /\ loop_counter = 1)
           => /\ best_unchanged_count = 1
              /\ closed_list = << <<initial_state, NegInf, NegInf>> >>
              /\ best_state = initial_state
              /\ best_score = NegInf
        /\ (pc = "done" /\ args.analysis = "features" /\ args.n >= 1)
           => /\ report.best # <<>> <=> staleness >= 2
              /\ staleness = 1
                 => /\ calls - args.k_folds = args.n
                    /\ counter = args.n
                    /\ report.best = <<>>
                    /\ report.value = NegInf

\* a search over 2 features with staleness 1 has ended after 2 evaluations
\* and reports the empty subset
C22_Witness ==
    /\ pc = "done"
    /\ args.analysis = "features"
    /\ args.n = 2
    /\ staleness = 1
    /\ counter = 2
    /\ report.best = <<>>

\* a search over 2 features with staleness 2 has ended and reports a
\* subset that is not empty
C22_WitnessStaleness2 ==
    /\ pc = "done"
    /\ args.analysis = "features"
    /\ args.n = 2
    /\ staleness = 2
    /\ report.best # <<>>


\* the elements of open_list and closed_list that were scored by
\* kfold_evaluate: all but the initial state
evaluated_states ==
    SelectSeq(open_list \o closed_list,
              LAMBDA e : \E i \in DOMAIN e[1] : e[1][i])

\* len(args.model_fields.split(args.args_separator)) for a state
complexity(state) == split_len(model_fields_of(state), ARGS_SEPARATOR)

\* C23: within one search every evaluation is scored with the sign of the
\* metric that was requested, also after the scorer fell back to
\* r_squared: each score is invert * (value - invert * penalty *
\* complexity) with invert the sign of args.optimize, and two evaluations
\* with the same raw value and the same complexity have the same score.
C23_SameSign ==
    LET invert == invert_of(args.optimize)
        e == evaluated_states
    IN  args.analysis = "features"
        => /\ \A i \in 1..Len(e) :
                 e[i][2] = invert * (e[i][3] - invert * penalty
                                                * complexity(e[i][1]))
           /\ \A i, j \in 1..Len(e) :
                 (e[i][3] = e[j][3]
                  /\ complexity(e[i][1]) = complexity(e[j][1]))
                 => e[i][2] = e[j][2]


(***************************************************************************)
(* SpecLedger: a run started with --resume in an output directory that     *)
(* holds the files of create_kfold_json and a ledger file of 0 to          *)
(* MaxLedgerLines lines: commands of the run itself or another command.    *)
(***************************************************************************)
MaxLedgerLines == 2

\* the first commands a run with the arguments a issues, its first command
\* with other common options, and another command
ledger_commands(a) ==
    { rebuild_command(selection_args([a EXCEPT !.opts = o], 0)) : o \in Opts }
    \cup
    { IF a.analysis = "features"
      THEN rebuild_command(create_cv_args(
               a, 1, model_fields_of([i \in 1..a.n |-> i = 1])))
      ELSE rebuild_command(node_threshold_args(
               a, or_default(a.min_nodes, DEFAULT_MIN_NODES))),
      rebuild_command(<<Tok("main", 0), Tok("other", 0)>> \o a.opts) }

LedgerLines(a) ==
    UNION {[1..len -> ledger_commands(a)] : len \in 0..MaxLedgerLines}

\* the file that holds the lines
RECURSIVE write_lines(_)
write_lines(lines) ==
    IF lines = <<>> THEN <<>>
    ELSE sys_log_message(write_lines(SubSeq(lines, 1, Len(lines) - 1)),
                         lines[Len(lines)])

\* the outputs the commands of the lines left when they were run
RECURSIVE ledger_outputs(_, _)
ledger_outputs(lines, value) ==
    IF lines = <<>> THEN <<>>
    ELSE LET command == lines[Len(lines)]
         IN  main_dispatcher(
                 ledger_outputs(SubSeq(lines, 1, Len(lines) - 1), value),
                 command,
                 IF output_of(command).pre = "test" THEN 0 ELSE value)

\* the last command of the ledger was completed, or it was interrupted
InitLedger ==
    \E a \in ResumeArgs, value \in Raws :
       \E lines \in LedgerLines(a) :
          \E done \in {Len(lines) - 1, Len(lines)} \cap Nat :
             /\ args = a
             /\ oracle_keys = {ACCURACY}
             /\ resume = TRUE /\ resume0 = TRUE
             /\ subcommand_file = write_lines(lines)
             /\ file_exists = TRUE
             /\ json_written = TRUE
             /\ outputs = ledger_outputs(SubSeq(lines, 1, done), value)
             /\ rows = <<>>
             /\ restarts = 0 /\ same_args = TRUE
             /\ prev = [pc |-> "interrupted", report |-> <<>>]
             /\ pc = "start"
             /\ ProcessStart
             /\ PureIdle

NextLedger ==
    \/ create_features_analysis
    \/ create_nodes_analysis
    \/ create_kfold_datasets
    \/ create_kfold_datasets_run
    \/ best_first_search
    \/ best_first_search_loop
    \/ kfold_evaluate
    \/ kfold_evaluate_run
    \/ best_node_threshold
    \/ best_node_threshold_loop
    \/ node_threshold_evaluate_run

SpecLedger == InitLedger /\ [][NextLedger]_vars

\* the number of lines the ledger held when this process loaded it
loaded_lines == Len(ledger) - appended

\* C24: whenever a command is handed to the resume protocol with resume
\* on, subcommand_list holds at least one entry, and the pop does not
\* fail, for every ledger file that was loaded, the empty one included.
C24_PopNeverFails ==
    /\ (invoking /\ resume) => subcommand_list # <<>>
    /\ pc # "IndexError"

\* the same for the ledger files that held at least one line
C24_NonEmptyLedger ==
    loaded_lines > 0 => C24_PopNeverFails


\* C25: every sweep that leaves its loop reaches the final report with a
\* best threshold that was assigned, also when the loop body never ran
\* (min_nodes > max_nodes, or staleness 0): no run ends in the error of a
\* best threshold that was never assigned.
C25_ReportDefined ==
    /\ pc # "UnboundLocalError"
    /\ (pc = "done" /\ args.analysis = "nodes")
       => /\ best_threshold # None
          /\ report.best = best_threshold[1]

=============================================================================
